---- MODULE Spec2Model ----
(***************************************************************************)
(* Model of the task pipeline of amway-speech-ai: the task store           *)
(* (app/db.py), the submission handlers and the two pipelines              *)
(* process_youtube_url / process_audio_from_file (the server module), and  *)
(* the segmentation engine and the summarizer (app/transcriber.py).        *)
(*                                                                         *)
(* External collaborators (yt-dlp, ffprobe, ffmpeg, the transcription and  *)
(* summarization providers, the file system, a write to the store inside   *)
(* a try block) answer nondeterministically.  The update_task of an       *)
(* exception handler is taken to reach the store: were it to raise, the    *)
(* exception would leave the background task and nothing more would run.   *)
(*                                                                         *)
(* Spec follows one task through its pipeline.  SpecWindows runs the       *)
(* segment loop over every duration, SpecUpdates interleaves concurrent    *)
(* calls of update_task, SpecStore lets days pass over a store that is     *)
(* purged at startup, SpecReads serves the read handlers, SpecDownload      *)
(* asks for results along the life of a task, SpecSubmit serves requests   *)
(* of several files or lines, and SpecPair interleaves the pipelines of    *)
(* two tasks.                                                              *)
(***************************************************************************)
EXTENDS Integers, Sequences, FiniteSets, TLC

VARIABLES rows, seq, files, results, proc, response, now, issued, ret, calls

vars == <<rows, seq, files, results, proc, response, now, issued, ret, calls>>

(* ------------------------------ bounds -------------------------------- *)

\* Task ids range over 1 .. MaxTasks (the store's AUTOINCREMENT counter).
MaxTasks == 2

\* Longest audio, in seconds, that a submission carries.
MaxDuration == 1200

\* Longest audio, in seconds, whose windows the segmentation loop is run over.
MaxWindowDuration == 1801

\* Callers of update_task that run at the same time are 1 .. MaxCallers.
MaxCallers == 2

\* The clock counts days from 0 to MaxClock.
MaxClock == 12

(* ------------------------- program constants -------------------------- *)

SEGMENT_DURATION == 600

\* progress written by process_youtube_url before and after the download
DOWNLOADING_PROGRESS == 5

YT_INITIAL_PROGRESS == 10

\* upper end of the segmentation phase's progress range
SEGMENT_PROGRESS_END == 90

SUMMARY_PROGRESS == 95

DONE_PROGRESS == 100

\* progress written by the error handler of process_audio_from_file
PAF_ERROR_PROGRESS == 100

\* progress written by the error handler of process_youtube_url
YT_ERROR_PROGRESS == 0

\* days_old of the two cleanup calls of startup_event
TASK_RETENTION_DAYS == 10

(* ------------------------------ values -------------------------------- *)

TaskIds == 1 .. MaxTasks

\* The one key verify_api_key_form accepts.
VALID_API_KEY == "key"

\* A key that is not the configured one: a client may present it, and a task
\* of an earlier configuration may be owned by it.
OTHER_API_KEY == "other key"

Keys == {VALID_API_KEY, OTHER_API_KEY}

\* SQL NULL in a TEXT column, Python None for a path
NULL == "NULL"

NoPath == <<>>

NoRow == [id |-> 0]

\* Durations of the media a client submits: the lengths around the segment
\* boundaries; 0 is a medium shorter than one second.
Durations == {d \in 0 .. MaxDuration : d % SEGMENT_DURATION \in {0, 1}}

UploadPath(t) == <<"upload", t>>

YtPath(t) == <<"yt", t>>

\* mutant: the segment files are named after the index of the segment alone
SegmentPathWithoutTaskId(t, i) == <<"seg", 0, i>>

\* os.path.join(SEGMENT_DIR, f"seg_{task_id}_{i}.mp3")
SegmentPath(t, i) == <<"seg", t, i>>

\* os.path.join(RESULTS_DIR, f"result_{task_id}.txt")
ResultPath(t) == <<"result", t>>

\* result file content of a file that is not there
NoFile == << <<"no file", 0>> >>

\* what a failed write leaves in a file opened with mode 'w'
Truncated == <<>>

(* --------------------------- the task store --------------------------- *)

\* INSERT INTO tasks ... VALUES (?, 'pending', 0, ?, CURRENT_TIMESTAMP, ...)
NewRow(id, api_key, filename, file_size, audio_duration, source_type, source_url) ==
  [id |-> id, api_key |-> api_key, status |-> "pending", progress |-> 0,
   filename |-> filename, created_at |-> now, file_size |-> file_size,
   audio_duration |-> audio_duration, result_file |-> NoPath, error |-> NULL,
   source_type |-> source_type, source_url |-> source_url]

\* mutant: a parameter is taken as supplied when it is truthy (if progress:)
\* instead of when it is not None, so that a supplied 0 is not written
UpdateTaskSkippingZero(db, task_id, fields) ==
  IF task_id \in DOMAIN db /\ db[task_id] # NoRow
    THEN [db EXCEPT ![task_id] =
            [f \in DOMAIN db[task_id] |->
               IF f \in DOMAIN fields /\ ~(f = "progress" /\ fields[f] = 0)
                 THEN fields[f] ELSE db[task_id][f]]]
    ELSE db

\* UPDATE tasks SET <the supplied fields> WHERE id = ?: fields is a function
\* from the names of the supplied (non-None) parameters to their values.
UpdateTask(db, task_id, fields) ==
  IF task_id \in DOMAIN db /\ db[task_id] # NoRow
    THEN [db EXCEPT ![task_id] =
            [f \in DOMAIN db[task_id] |->
               IF f \in DOMAIN fields THEN fields[f] ELSE db[task_id][f]]]
    ELSE db

\* What the last call of a store function or of a read handler returned:
\* code is the HTTP status of a handler (0 for a store function), data the
\* value returned; nothing has returned in NoReturn.
Return(op, task_id, api_key, code, data) ==
  [op |-> op, task_id |-> task_id, api_key |-> api_key, code |-> code, data |-> data]

NoReturn == Return("none", 0, "", 0, <<>>)

\* Python None
None == <<"None", 0>>

\* A call of update_task in flight: its connection, its parameters and the
\* row image its UPDATE statement holds until the commit.
Callers == 1 .. MaxCallers

IdleCall == [pc |-> "idle", task_id |-> 0, fields |-> <<>>, image |-> NoRow]

\* SELECT ... FROM tasks WHERE id = ?: the row, or None
GetTask(db, task_id) ==
  IF task_id \in DOMAIN db /\ db[task_id] # NoRow THEN db[task_id] ELSE NoRow

\* the orders in which the elements of S can follow one another
Orders(S) ==
  {o \in [1 .. Cardinality(S) -> S] :
     \A j, k \in 1 .. Cardinality(S) : j # k => o[j] # o[k]}

\* SELECT ... FROM tasks WHERE api_key = ? ORDER BY created_at DESC: the
\* lists fetchall() can return, rows of one timestamp coming in any order
GetTasksForKey(db, api_key) ==
  LET owned == {t \in DOMAIN db : db[t] # NoRow /\ db[t].api_key = api_key} IN
  {[k \in 1 .. Cardinality(owned) |-> db[o[k]]] :
     o \in {o \in Orders(owned) :
              \A j, k \in 1 .. Cardinality(owned) :
                j < k => db[o[j]].created_at >= db[o[k]].created_at}}

\* mutant: the cutoff is datetime('now'), without the offset of days_old
ExpiredWithoutOffset(db, days_old) ==
  {t \in DOMAIN db : db[t] # NoRow /\ db[t].created_at < now}

\* the rows of WHERE created_at < datetime('now', '-' || ? || ' days')
Expired(db, days_old) ==
  {t \in DOMAIN db : db[t] # NoRow /\ db[t].created_at < now - days_old}

\* cleanup_old_tasks: the DELETE, deleted_count = cursor.rowcount, and the
\* value of a function that ends without a return statement
CleanupOldTasks(db, days_old) ==
  [rows |-> [t \in DOMAIN db |-> IF t \in Expired(db, days_old) THEN NoRow ELSE db[t]],
   deleted_count |-> Cardinality(Expired(db, days_old)),
   return |-> None]

(* ------------------------ pipeline locals ----------------------------- *)

\* The locals of one dispatched pipeline; pc "none" is a task id that has
\* not been dispatched, probed = -1 a duration that has not been probed,
\* scheduled the number of background tasks that were added for the id, and
\* attempt the number of times the transcription of segment i was started.
IdleProc ==
  [pc |-> "none", scheduled |-> 0, attempt |-> 0, source_type |-> "upload", summarize |-> FALSE, D |-> 0,
   temp_path |-> NoPath, file_path |-> NoPath, initial_progress |-> 0,
   probed |-> -1, duration_seconds |-> 0, num_segments |-> 0, i |-> 0, start_sec |-> 0,
   end_sec |-> 0, full_text |-> <<>>,
   state |-> "", e |-> "", transcript |-> <<>>, summary |-> <<>>, info |-> "",
   result |-> <<>>]

\* An empty store; the AUTOINCREMENT counter of sqlite_sequence outlives the
\* tasks that earlier runs created and cleanup_old_tasks purged.
Init ==
  /\ rows = [t \in TaskIds |-> NoRow]
  /\ seq \in 0 .. (MaxTasks - 1)
  /\ files = {}
  /\ results = [t \in TaskIds |-> NoFile]
  /\ proc = [t \in TaskIds |-> IdleProc]
  /\ response = 0
  /\ now = 0
  /\ issued = 1 .. seq
  /\ ret = NoReturn
  /\ calls = [c \in Callers |-> IdleCall]

(* ------------------------ submission handlers ------------------------- *)

\* What one uploaded file can be: accepted, an empty filename, an extension
\* other than .mp3/.m4a/.wav, more than 500MB, or a stream that fails.
FileKinds == {"ok", "empty", "unsupported", "oversize", "upload_fails"}

\* What one line of the urls form field can be.
UrlKinds == {"valid", "invalid"}

\* get_audio_duration: the duration ffprobe reports, or 0 when it fails.
ProbeResults(D) == {D, 0}

\* This specification follows one task from its submission to its end: a
\* request is served while the store holds no task.
StoreEmpty ==
  \A t \in TaskIds : rows[t] = NoRow /\ proc[t].pc = "none"

\* mutant: the handler returns the task id and adds no background task
AddTaskDropped(ps, task_id, p) ==
  ps

\* background_tasks.add_task(func, ..., task_id): the pipeline with the locals
\* p runs for task_id once the response is sent
AddTask(ps, task_id, p) ==
  [ps EXCEPT ![task_id] = [p EXCEPT !.scheduled = ps[task_id].scheduled + 1]]

\* POST /transcribe with one file.
TranscribeFiles(kind, summarize, D, probed) ==
  /\ StoreEmpty
  /\ seq < MaxTasks
  /\ IF kind = "ok"
       THEN /\ seq' = seq + 1
            /\ rows' = [rows EXCEPT ![seq + 1] =
                 NewRow(seq + 1, VALID_API_KEY, "a.mp3", 1, probed, "upload", NULL)]
            /\ files' = files \cup {UploadPath(seq + 1)}
            /\ proc' = AddTask(proc, seq + 1,
                 [IdleProc EXCEPT !.pc = "paf_start", !.source_type = "upload",
                                  !.summarize = summarize, !.D = D,
                                  !.file_path = UploadPath(seq + 1),
                                  !.initial_progress = 0])
            /\ issued' = issued \cup {seq + 1}
            /\ response' = 200
       ELSE /\ response' = 400
            /\ UNCHANGED <<seq, rows, files, proc, issued>>
  /\ UNCHANGED <<results, now, ret, calls>>

\* POST /transcribe-youtube with one line.
TranscribeYoutube(kind, summarize, D, created) ==
  /\ StoreEmpty
  /\ seq < MaxTasks
  /\ IF kind = "valid" /\ created
       THEN /\ seq' = seq + 1
            /\ rows' = [rows EXCEPT ![seq + 1] =
                 NewRow(seq + 1, VALID_API_KEY, "title", 0, 0, "youtube", "url")]
            /\ proc' = AddTask(proc, seq + 1,
                 [IdleProc EXCEPT !.pc = "yt_start", !.source_type = "youtube",
                                  !.summarize = summarize, !.D = D])
            /\ issued' = issued \cup {seq + 1}
            /\ response' = 200
       ELSE /\ response' = 400
            /\ UNCHANGED <<seq, rows, proc, issued>>
  /\ UNCHANGED <<files, results, now, ret, calls>>

(* ------------------------ process_youtube_url ------------------------- *)

\* str(e) of the exceptions the pipelines catch
DB_ERROR == "database error"

DOWNLOAD_ERROR == "Failed to download from URL"

WRITE_ERROR == "write failed"

\* update_task(task_id, status='downloading', progress=5)
DownloadingFields == [status |-> "downloading", progress |-> DOWNLOADING_PROGRESS]

YtStart(t) ==
  /\ proc[t].pc = "yt_start"
  /\ \E db_ok \in BOOLEAN :
       IF db_ok
         THEN /\ rows' = UpdateTask(rows, t, DownloadingFields)
              /\ proc' = [proc EXCEPT ![t].pc = "yt_download"]
         ELSE /\ rows' = rows
              /\ proc' = [proc EXCEPT ![t].pc = "yt_except", ![t].e = DB_ERROR]
  /\ UNCHANGED <<seq, files, results, response>>
  /\ UNCHANGED <<now, issued, ret, calls>>

\* download_audio_from_url: the file yt_<task_id>_<title>.mp3, or ValueError
YtDownload(t) ==
  /\ proc[t].pc = "yt_download"
  /\ \E ok \in BOOLEAN :
       IF ok
         THEN /\ files' = files \cup {YtPath(t)}
              /\ proc' = [proc EXCEPT ![t].pc = "yt_processing",
                                      ![t].temp_path = YtPath(t)]
         ELSE /\ files' = files
              /\ proc' = [proc EXCEPT ![t].pc = "yt_except", ![t].e = DOWNLOAD_ERROR]
  /\ UNCHANGED <<rows, seq, results, response>>
  /\ UNCHANGED <<now, issued, ret, calls>>

\* update_task(task_id, status='processing', progress=10, file_size=...,
\*             audio_duration=duration, filename=title)
ProcessingFields(duration) ==
  [status |-> "processing", progress |-> YT_INITIAL_PROGRESS, file_size |-> 1,
   audio_duration |-> duration, filename |-> "title"]

\* ... then the call of process_audio_from_file(temp_path, ..., initial_progress=10)
YtProcessing(t) ==
  /\ proc[t].pc = "yt_processing"
  /\ \E db_ok \in BOOLEAN, duration \in ProbeResults(proc[t].D) :
       IF db_ok
         THEN /\ rows' = UpdateTask(rows, t, ProcessingFields(duration))
              /\ proc' = [proc EXCEPT ![t].pc = "paf_start",
                                      ![t].file_path = proc[t].temp_path,
                                      ![t].initial_progress = YT_INITIAL_PROGRESS]
         ELSE /\ rows' = rows
              /\ proc' = [proc EXCEPT ![t].pc = "yt_except", ![t].e = DB_ERROR]
  /\ UNCHANGED <<seq, files, results, response>>
  /\ UNCHANGED <<now, issued, ret, calls>>

\* mutant: the handler records the message and leaves the status as it is
YtErrorFieldsWithoutStatus(e) == [progress |-> YT_ERROR_PROGRESS, error |-> e]

\* update_task(task_id, status='error', progress=0, error=str(e))
YtErrorFields(e) == [status |-> "error", progress |-> YT_ERROR_PROGRESS, error |-> e]

\* except Exception as e: of process_youtube_url
YtExcept(t) ==
  /\ proc[t].pc = "yt_except"
  /\ rows' = UpdateTask(rows, t, YtErrorFields(proc[t].e))
  /\ proc' = [proc EXCEPT ![t].pc = "yt_finally"]
  /\ UNCHANGED <<seq, files, results, response>>
  /\ UNCHANGED <<now, issued, ret, calls>>

\* finally: of process_youtube_url
YtFinally(t) ==
  /\ proc[t].pc = "yt_finally"
  /\ files' = files \ {proc[t].temp_path}
  /\ proc' = [proc EXCEPT ![t].pc = "finished"]
  /\ UNCHANGED <<rows, seq, results, response>>
  /\ UNCHANGED <<now, issued, ret, calls>>

(* ----------------- transcribe_audio_file_streaming -------------------- *)

\* the entries of full_text
Text(i) == <<"text", i + 1>>

\* f"[片段 {i+1}: 無內容]"
NoContent(i) == <<"no content", i + 1>>

\* f"[片段 {i+1} 錯誤: 提取失敗]"
ExtractFailed(i) == <<"extract failed", i + 1>>

\* f"[片段 {i+1} 錯誤: {str(e)[:100]}]"
SegmentError(i) == <<"error", i + 1>>

\* mutant: the count of whole segments, without the one for the remainder
NumSegmentsWithoutRemainder(duration_seconds) ==
  duration_seconds \div SEGMENT_DURATION

\* (duration_seconds // SEGMENT_DURATION) + (1 if duration_seconds % SEGMENT_DURATION else 0)
NumSegments(duration_seconds) ==
  (duration_seconds \div SEGMENT_DURATION)
    + (IF duration_seconds % SEGMENT_DURATION # 0 THEN 1 ELSE 0)

\* start_sec = i * SEGMENT_DURATION
StartSec(i) == i * SEGMENT_DURATION

\* end_sec = min((i + 1) * SEGMENT_DURATION, duration_seconds)
EndSec(i, duration_seconds) ==
  IF (i + 1) * SEGMENT_DURATION < duration_seconds
    THEN (i + 1) * SEGMENT_DURATION
    ELSE duration_seconds

\* the window of iteration i, computed at the head of the try of the loop
WithWindow(p) ==
  [p EXCEPT !.start_sec = StartSec(p.i),
            !.end_sec = EndSec(p.i, p.duration_seconds)]

\* int(initial_progress + ((i + 1) / num_segments) * progress_range)
SegmentProgress(initial_progress, i, num_segments) ==
  initial_progress
    + (((i + 1) * (SEGMENT_PROGRESS_END - initial_progress)) \div num_segments)

\* the "\n\n" between two entries
Delimiter == <<"delimiter", 0>>

\* "\n\n".join(full_text)
RECURSIVE Join(_)
Join(full_text) ==
  IF Len(full_text) = 0 THEN <<>>
  ELSE IF Len(full_text) = 1 THEN <<full_text[1]>>
  ELSE <<full_text[1], Delimiter>> \o Join(Tail(full_text))

\* for i in range(num_segments): the first iteration, or the return when
\* there is none
LoopEntry(num_segments) ==
  IF num_segments > 0 THEN "seg_extract" ELSE "tr_return"

\* the next iteration of for i in range(num_segments), or the return
NextSegment(p) ==
  IF p.i + 1 < p.num_segments
    THEN [p EXCEPT !.pc = "seg_extract", !.i = p.i + 1, !.state = "", !.attempt = 0]
    ELSE [p EXCEPT !.pc = "tr_return", !.state = "", !.attempt = 0]

\* except Exception as e: of the segment loop
SegmentExcept(p) ==
  NextSegment([p EXCEPT !.full_text = Append(p.full_text, SegmentError(p.i))])

\* duration_seconds = await get_audio_duration(file_path), the default when it
\* is 0, and update_task(task_id, audio_duration=duration_seconds); an
\* exception leaves through the finally that deletes file_path.
TrStart(t) ==
  /\ proc[t].pc = "paf_start"
  /\ \E probed \in ProbeResults(proc[t].D), db_ok \in BOOLEAN :
       LET duration_seconds == IF probed = 0 THEN SEGMENT_DURATION ELSE probed IN
       IF db_ok
         THEN /\ rows' = UpdateTask(rows, t, [audio_duration |-> duration_seconds])
              /\ files' = files
              /\ proc' = [proc EXCEPT ![t].pc = LoopEntry(NumSegments(duration_seconds)),
                                      ![t].probed = probed,
                                      ![t].duration_seconds = duration_seconds,
                                      ![t].num_segments = NumSegments(duration_seconds),
                                      ![t].i = 0, ![t].full_text = <<>>]
         ELSE /\ rows' = rows
              /\ files' = files \ {proc[t].file_path}
              /\ proc' = [proc EXCEPT ![t].pc = "paf_except", ![t].e = DB_ERROR,
                                      ![t].probed = probed]
  /\ UNCHANGED <<seq, results, response>>
  /\ UNCHANGED <<now, issued, ret, calls>>

\* What the run of ffmpeg on one window can end as: the segment file written;
\* a non-zero exit or no output file; a non-zero exit with an output file
\* left behind; subprocess.TimeoutExpired.
ExtractOutcomes == {"ok", "failed", "failed_with_file", "timeout"}

SegExtract(t) ==
  /\ proc[t].pc = "seg_extract"
  /\ \E outcome \in ExtractOutcomes :
       LET p == WithWindow(proc[t])
           path == SegmentPath(t, p.i) IN
       CASE outcome = "ok" ->
              /\ files' = files \cup {path}
              /\ proc' = [proc EXCEPT ![t] =
                   [p EXCEPT !.pc = "seg_upload", !.attempt = p.attempt + 1]]
         [] outcome = "failed" ->
              /\ files' = files
              /\ proc' = [proc EXCEPT ![t] =
                   NextSegment([p EXCEPT !.full_text = Append(p.full_text, ExtractFailed(p.i))])]
         [] outcome = "failed_with_file" ->
              /\ files' = files \cup {path}
              /\ proc' = [proc EXCEPT ![t] =
                   NextSegment([p EXCEPT !.full_text = Append(p.full_text, ExtractFailed(p.i))])]
         [] outcome = "timeout" ->
              /\ files' = files \ {path}
              /\ proc' = [proc EXCEPT ![t] = SegmentExcept(p)]
  /\ UNCHANGED <<rows, seq, results, response>>
  /\ UNCHANGED <<now, issued, ret, calls>>

\* What genai.upload_file and genai.get_file answer: a file in one of the
\* three states, or an exception.
FileStates == {"PROCESSING", "ACTIVE", "FAILED"}

ProviderAnswers == FileStates \cup {"raise"}

\* the file's state read by the while loop, and the raise on FAILED
AfterFileState(t, answer) ==
  CASE answer = "PROCESSING" ->
         /\ files' = files
         /\ proc' = [proc EXCEPT ![t].pc = "seg_sleep", ![t].state = answer]
    [] answer = "ACTIVE" ->
         /\ files' = files
         /\ proc' = [proc EXCEPT ![t].pc = "seg_generate", ![t].state = answer]
    [] OTHER ->
         /\ files' = files \ {SegmentPath(t, proc[t].i)}
         /\ proc' = [proc EXCEPT ![t] = SegmentExcept(proc[t])]

\* uploaded_file = await asyncio.to_thread(genai.upload_file, path=segment_path)
SegUpload(t) ==
  /\ proc[t].pc = "seg_upload"
  /\ \E answer \in ProviderAnswers : AfterFileState(t, answer)
  /\ UNCHANGED <<rows, seq, results, response>>
  /\ UNCHANGED <<now, issued, ret, calls>>

\* await asyncio.sleep(2) in the while loop
SegSleep(t) ==
  /\ proc[t].pc = "seg_sleep"
  /\ proc' = [proc EXCEPT ![t].pc = "seg_get_file"]
  /\ UNCHANGED <<rows, seq, files, results, response>>
  /\ UNCHANGED <<now, issued, ret, calls>>

\* uploaded_file = await asyncio.to_thread(genai.get_file, uploaded_file.name)
SegGetFile(t) ==
  /\ proc[t].pc = "seg_get_file"
  /\ \E answer \in ProviderAnswers : AfterFileState(t, answer)
  /\ UNCHANGED <<rows, seq, results, response>>
  /\ UNCHANGED <<now, issued, ret, calls>>

\* What model.generate_content answers.
GenerateOutcomes == {"text", "empty", "raise"}

\* generate_content, the append to full_text and os.remove(segment_path)
SegGenerate(t) ==
  /\ proc[t].pc = "seg_generate"
  /\ \E outcome \in GenerateOutcomes :
       LET p == proc[t] IN
       /\ files' = files \ {SegmentPath(t, p.i)}
       /\ proc' = [proc EXCEPT ![t] =
            CASE outcome = "text" ->
                   [p EXCEPT !.pc = "seg_progress",
                             !.full_text = Append(p.full_text, Text(p.i))]
              [] outcome = "empty" ->
                   [p EXCEPT !.pc = "seg_progress",
                             !.full_text = Append(p.full_text, NoContent(p.i))]
              [] OTHER -> SegmentExcept(p)]
  /\ UNCHANGED <<rows, seq, results, response>>
  /\ UNCHANGED <<now, issued, ret, calls>>

\* await update_task(task_id, progress=segment_progress), inside the try of
\* the segment loop
SegProgress(t) ==
  /\ proc[t].pc = "seg_progress"
  /\ \E db_ok \in BOOLEAN :
       LET p == proc[t] IN
       IF db_ok
         THEN /\ rows' = UpdateTask(rows, t,
                   [progress |-> SegmentProgress(p.initial_progress, p.i, p.num_segments)])
              /\ proc' = [proc EXCEPT ![t] = NextSegment(p)]
         ELSE /\ rows' = rows
              /\ proc' = [proc EXCEPT ![t] = SegmentExcept(p)]
  /\ UNCHANGED <<seq, files, results, response>>
  /\ UNCHANGED <<now, issued, ret, calls>>

\* return "\n\n".join(full_text), through the finally that deletes file_path
TrReturn(t) ==
  /\ proc[t].pc = "tr_return"
  /\ files' = files \ {proc[t].file_path}
  /\ LET transcript == Join(proc[t].full_text) IN
       proc' = [proc EXCEPT ![t].pc = IF proc[t].summarize THEN "sum_progress" ELSE "paf_write",
                            ![t].transcript = transcript,
                            ![t].result = IF proc[t].summarize THEN <<>> ELSE transcript]
  /\ UNCHANGED <<rows, seq, results, response>>
  /\ UNCHANGED <<now, issued, ret, calls>>

(* ---------------- summarize_with_grok and the result ------------------ *)

\* the text the summarization provider returns, and the "" of a failure
SummaryText == <<"summary", 1>>

EmptySummary == <<"summary", 0>>

\* the error detail summarize_with_grok returns next to the summary
HTTP_ERROR == "HTTP error"

UNEXPECTED_STRUCTURE == "Unexpected response structure"

UNEXPECTED_ERROR == "Unexpected error"

\* the two banners of the composed document
SummaryHeader == <<"summary header", 0>>

TranscriptHeader == <<"transcript header", 0>>

\* result = header + f"{summary}\n\n" + header + f"{transcript}"
Compose(summary, transcript) ==
  <<SummaryHeader, summary, TranscriptHeader>> \o transcript

\* summary, info = await summarize_with_gemini(...) has returned: the
\* composition of the result from whatever it returned
Summarized(p, summary, info) ==
  [p EXCEPT !.pc = "paf_write", !.summary = summary, !.info = info,
            !.result = Compose(summary, p.transcript)]

\* mutant: the progress update stands before the try of summarize_with_grok,
\* so that its exception reaches the handler of process_audio_from_file
SumProgressOutsideTry(t) ==
  /\ proc[t].pc = "sum_progress"
  /\ \E db_ok \in BOOLEAN :
       IF db_ok
         THEN /\ rows' = UpdateTask(rows, t, [progress |-> SUMMARY_PROGRESS])
              /\ proc' = [proc EXCEPT ![t].pc = "sum_post"]
         ELSE /\ rows' = rows
              /\ proc' = [proc EXCEPT ![t].pc = "paf_except", ![t].e = DB_ERROR]
  /\ UNCHANGED <<seq, files, results, response>>
  /\ UNCHANGED <<now, issued, ret, calls>>

\* await update_task(task_id, progress=95), inside the try of
\* summarize_with_grok: an exception returns ("", error)
SumProgress(t) ==
  /\ proc[t].pc = "sum_progress"
  /\ \E db_ok \in BOOLEAN :
       IF db_ok
         THEN /\ rows' = UpdateTask(rows, t, [progress |-> SUMMARY_PROGRESS])
              /\ proc' = [proc EXCEPT ![t].pc = "sum_post"]
         ELSE /\ rows' = rows
              /\ proc' = [proc EXCEPT ![t] =
                   Summarized(proc[t], EmptySummary, UNEXPECTED_ERROR)]
  /\ UNCHANGED <<seq, files, results, response>>
  /\ UNCHANGED <<now, issued, ret, calls>>

\* What session.post and the reading of its response end as.
PostOutcomes == {"ok", "http_error", "unexpected_structure", "raise"}

\* the POST of summarize_with_grok, and the composition of the result
SumPost(t) ==
  /\ proc[t].pc = "sum_post"
  /\ \E outcome \in PostOutcomes :
       proc' = [proc EXCEPT ![t] =
         CASE outcome = "ok" -> Summarized(proc[t], SummaryText, "")
           [] outcome = "http_error" -> Summarized(proc[t], EmptySummary, HTTP_ERROR)
           [] outcome = "unexpected_structure" ->
                Summarized(proc[t], EmptySummary, UNEXPECTED_STRUCTURE)
           [] OTHER -> Summarized(proc[t], EmptySummary, UNEXPECTED_ERROR)]
  /\ UNCHANGED <<rows, seq, files, results, response>>
  /\ UNCHANGED <<now, issued, ret, calls>>

\* What writing the result file ends as: written; open() fails; write() fails
\* after open() has truncated the file.
WriteOutcomes == {"ok", "open_fails", "write_fails"}

\* mutant: a failed write is swallowed and the pipeline goes on to the done
\* update
PafWriteIgnoringFailure(t) ==
  /\ proc[t].pc = "paf_write"
  /\ \E outcome \in WriteOutcomes :
       /\ results' = [results EXCEPT ![ResultPath(t)[2]] =
            IF outcome = "ok" THEN proc[t].result
            ELSE IF outcome = "write_fails" THEN Truncated ELSE results[t]]
       /\ proc' = [proc EXCEPT ![t].pc = "paf_done"]
  /\ UNCHANGED <<rows, seq, files, response>>
  /\ UNCHANGED <<now, issued, ret, calls>>

\* async with aiofiles.open(result_file_path, 'w') as f: await f.write(result);
\* results holds the content of result_<n>.txt under n
PafWrite(t) ==
  /\ proc[t].pc = "paf_write"
  /\ \E outcome \in WriteOutcomes :
       CASE outcome = "ok" ->
              /\ results' = [results EXCEPT ![ResultPath(t)[2]] = proc[t].result]
              /\ proc' = [proc EXCEPT ![t].pc = "paf_done"]
         [] outcome = "open_fails" ->
              /\ results' = results
              /\ proc' = [proc EXCEPT ![t].pc = "paf_except", ![t].e = WRITE_ERROR]
         [] outcome = "write_fails" ->
              /\ results' = [results EXCEPT ![ResultPath(t)[2]] = Truncated]
              /\ proc' = [proc EXCEPT ![t].pc = "paf_except", ![t].e = WRITE_ERROR]
  /\ UNCHANGED <<rows, seq, files, response>>
  /\ UNCHANGED <<now, issued, ret, calls>>

\* mutant: the done update does not link the artifact
DoneFieldsWithoutResultFile(t) ==
  [status |-> "done", progress |-> DONE_PROGRESS]

\* update_task(task_id, status='done', progress=100, result_file=result_file_path)
DoneFields(t) ==
  [status |-> "done", progress |-> DONE_PROGRESS, result_file |-> ResultPath(t)]

PafDone(t) ==
  /\ proc[t].pc = "paf_done"
  /\ \E db_ok \in BOOLEAN :
       IF db_ok
         THEN /\ rows' = UpdateTask(rows, t, DoneFields(t))
              /\ proc' = [proc EXCEPT ![t].pc = "paf_finally"]
         ELSE /\ rows' = rows
              /\ proc' = [proc EXCEPT ![t].pc = "paf_except", ![t].e = DB_ERROR]
  /\ UNCHANGED <<seq, files, results, response>>
  /\ UNCHANGED <<now, issued, ret, calls>>

\* update_task(task_id, status='error', progress=100, error=str(e))
PafErrorFields(e) == [status |-> "error", progress |-> PAF_ERROR_PROGRESS, error |-> e]

\* mutant: the handler records the error and raises again, into the handler
\* of process_youtube_url
PafExceptRaisingAgain(t) ==
  /\ proc[t].pc = "paf_except"
  /\ rows' = UpdateTask(rows, t, PafErrorFields(proc[t].e))
  /\ proc' = [proc EXCEPT ![t].pc =
       IF proc[t].source_type = "youtube" THEN "yt_except" ELSE "paf_finally"]
  /\ UNCHANGED <<seq, files, results, response>>
  /\ UNCHANGED <<now, issued, ret, calls>>

\* except Exception as e: of process_audio_from_file
PafExcept(t) ==
  /\ proc[t].pc = "paf_except"
  /\ rows' = UpdateTask(rows, t, PafErrorFields(proc[t].e))
  /\ proc' = [proc EXCEPT ![t].pc = "paf_finally"]
  /\ UNCHANGED <<seq, files, results, response>>
  /\ UNCHANGED <<now, issued, ret, calls>>

\* finally: of process_audio_from_file, and the return to its caller
PafFinally(t) ==
  /\ proc[t].pc = "paf_finally"
  /\ files' = files \ {proc[t].file_path}
  /\ proc' = [proc EXCEPT ![t].pc =
       IF proc[t].source_type = "youtube" THEN "yt_finally" ELSE "finished"]
  /\ UNCHANGED <<rows, seq, results, response>>
  /\ UNCHANGED <<now, issued, ret, calls>>

(* --------------------------- specification ---------------------------- *)

\* one step of the pipeline dispatched for task t
Pipeline(t) ==
  \/ YtStart(t)
  \/ YtDownload(t)
  \/ YtProcessing(t)
  \/ YtExcept(t)
  \/ YtFinally(t)
  \/ TrStart(t)
  \/ SegExtract(t)
  \/ SegUpload(t)
  \/ SegSleep(t)
  \/ SegGetFile(t)
  \/ SegGenerate(t)
  \/ SegProgress(t)
  \/ TrReturn(t)
  \/ SumProgress(t)
  \/ SumPost(t)
  \/ PafWrite(t)
  \/ PafDone(t)
  \/ PafExcept(t)
  \/ PafFinally(t)

Submit ==
  \E summarize \in BOOLEAN, D \in Durations :
    \/ \E kind \in FileKinds, probed \in ProbeResults(D) :
         TranscribeFiles(kind, summarize, D, probed)
    \/ \E kind \in UrlKinds, created \in BOOLEAN :
         TranscribeYoutube(kind, summarize, D, created)

Next ==
  \/ Submit
  \/ \E t \in TaskIds : Pipeline(t)

Spec == Init /\ [][Next]_vars

\* The event loop runs every pipeline that can take a step.
FairSpec == Spec /\ \A t \in TaskIds : WF_vars(Pipeline(t))

(* ------------------- the windows of the segment loop ------------------ *)

\* The row of a task whose pipeline has probed and stored duration_seconds:
\* an upload, or a URL task after the 'processing' update of
\* process_youtube_url.
ProbedRow(source_type, duration_seconds) ==
  IF source_type = "youtube"
    THEN [NewRow(1, VALID_API_KEY, "title", 1, duration_seconds, "youtube", "url")
            EXCEPT !.status = "processing", !.progress = YT_INITIAL_PROGRESS]
    ELSE NewRow(1, VALID_API_KEY, "a.mp3", 1, duration_seconds, "upload", NULL)

\* The loop of transcribe_audio_file_streaming over an upload and over a
\* downloaded medium of every duration from one second to MaxWindowDuration:
\* the states after the duration was probed and stored.
WindowsInit ==
  /\ seq = 1
  /\ now = 0
  /\ issued = {1}
  /\ ret = NoReturn
  /\ calls = [c \in Callers |-> IdleCall]
  /\ results = [t \in TaskIds |-> NoFile]
  /\ response = 200
  /\ \E duration_seconds \in 1 .. MaxWindowDuration, source_type \in {"upload", "youtube"} :
       /\ files = {IF source_type = "youtube" THEN YtPath(1) ELSE UploadPath(1)}
       /\ rows = [t \in TaskIds |->
            IF t = 1 THEN ProbedRow(source_type, duration_seconds) ELSE NoRow]
       /\ proc = [t \in TaskIds |->
            IF t = 1
              THEN [IdleProc EXCEPT !.pc = LoopEntry(NumSegments(duration_seconds)),
                                    !.scheduled = 1,
                                    !.source_type = source_type,
                                    !.D = duration_seconds,
                                    !.temp_path =
                                      IF source_type = "youtube" THEN YtPath(1) ELSE NoPath,
                                    !.file_path =
                                      IF source_type = "youtube" THEN YtPath(1) ELSE UploadPath(1),
                                    !.initial_progress =
                                      IF source_type = "youtube" THEN YT_INITIAL_PROGRESS ELSE 0,
                                    !.probed = duration_seconds,
                                    !.duration_seconds = duration_seconds,
                                    !.num_segments = NumSegments(duration_seconds)]
              ELSE IdleProc]

\* One iteration of for i in range(num_segments) in which nothing fails: the
\* window of segment i, its text, the progress update, and the next
\* iteration or the end of the loop.
SegWindow(t) ==
  /\ proc[t].pc = "seg_extract"
  /\ LET p == WithWindow(proc[t]) IN
       /\ proc' = [proc EXCEPT ![t] =
            NextSegment([p EXCEPT !.full_text = Append(p.full_text, Text(p.i))])]
       /\ rows' = UpdateTask(rows, t,
            [progress |-> SegmentProgress(p.initial_progress, p.i, p.num_segments)])
  /\ UNCHANGED <<seq, files, results, response>>
  /\ UNCHANGED <<now, issued, ret, calls>>

WindowsNext == \E t \in TaskIds : SegWindow(t)

SpecWindows == WindowsInit /\ [][WindowsNext]_vars

(* ---------------------- concurrent update_task ------------------------ *)

\* The store once every id has been given to a URL task that is still pending.
PendingRows ==
  [t \in TaskIds |-> NewRow(t, VALID_API_KEY, "title", 0, 0, "youtube", "url")]

UpdatesInit ==
  /\ now = 0
  /\ rows = PendingRows
  /\ seq = MaxTasks
  /\ issued = TaskIds
  /\ files = {}
  /\ results = [t \in TaskIds |-> NoFile]
  /\ proc = [t \in TaskIds |-> IdleProc]
  /\ response = 200
  /\ ret = NoReturn
  /\ calls = [c \in Callers |-> IdleCall]

\* The parameters a caller supplies: the progress update of the summarizer,
\* the metadata update of the engine, and the downloading and error updates
\* of process_youtube_url.
Patches ==
  {[progress |-> SUMMARY_PROGRESS], [audio_duration |-> SEGMENT_DURATION],
   DownloadingFields, YtErrorFields(DOWNLOAD_ERROR)}

\* the connection that holds the write lock of the database file
LockHeld == \E c \in Callers : calls[c].pc = "executed"

\* async with aiosqlite.connect(DB_FILE) as db: and the building of the
\* UPDATE statement from the parameters that are not None
UpdateConnect(c, task_id, fields) ==
  /\ calls[c].pc = "idle"
  /\ calls' = [calls EXCEPT ![c] =
       [pc |-> "connected", task_id |-> task_id, fields |-> fields, image |-> NoRow]]
  /\ UNCHANGED <<rows, seq, files, results, proc, response, now, issued, ret>>

\* mutant: the statement runs on a connection that takes no write lock
UpdateExecuteWithoutLock(c) ==
  /\ calls[c].pc = "connected"
  /\ calls' = [calls EXCEPT ![c].pc = "executed",
                            ![c].image =
                              UpdateTask(rows, calls[c].task_id, calls[c].fields)[calls[c].task_id]]
  /\ UNCHANGED <<rows, seq, files, results, proc, response, now, issued, ret>>

\* await db.execute(query, params): the statement takes the write lock of
\* the database (it waits while another connection holds it) and sets the
\* supplied columns of the row inside its transaction
UpdateExecute(c) ==
  /\ calls[c].pc = "connected"
  /\ ~LockHeld
  /\ calls' = [calls EXCEPT ![c].pc = "executed",
                            ![c].image =
                              UpdateTask(rows, calls[c].task_id, calls[c].fields)[calls[c].task_id]]
  /\ UNCHANGED <<rows, seq, files, results, proc, response, now, issued, ret>>

\* await db.execute(query, params) when the lock stays held for longer than
\* the busy timeout: sqlite3.OperationalError, database is locked
UpdateBusy(c) ==
  /\ calls[c].pc = "connected"
  /\ LockHeld
  /\ calls' = [calls EXCEPT ![c].pc = "raised"]
  /\ UNCHANGED <<rows, seq, files, results, proc, response, now, issued, ret>>

\* await db.commit(), and the return of update_task
UpdateCommit(c) ==
  /\ calls[c].pc = "executed"
  /\ rows' = [rows EXCEPT ![calls[c].task_id] = calls[c].image]
  /\ calls' = [calls EXCEPT ![c].pc = "returned"]
  /\ UNCHANGED <<seq, files, results, proc, response, now, issued, ret>>

UpdatesNext ==
  \E c \in Callers :
    \/ \E task_id \in TaskIds, fields \in Patches : UpdateConnect(c, task_id, fields)
    \/ UpdateExecute(c)
    \/ UpdateBusy(c)
    \/ UpdateCommit(c)

SpecUpdates == UpdatesInit /\ [][UpdatesNext]_vars

(* ----------------------- the store over the days --------------------- *)

\* An empty store on the day the server is first started.
StoreInit ==
  /\ now = 0
  /\ rows = [t \in TaskIds |-> NoRow]
  /\ seq = 0
  /\ issued = {}
  /\ files = {}
  /\ results = [t \in TaskIds |-> NoFile]
  /\ proc = [t \in TaskIds |-> IdleProc]
  /\ response = 0
  /\ ret = NoReturn
  /\ calls = [c \in Callers |-> IdleCall]

\* mutant: the table is declared INTEGER PRIMARY KEY without AUTOINCREMENT,
\* so that the new rowid is one more than the largest rowid in the table
CreateTaskReusingRowid(api_key) ==
  LET used == {t \in TaskIds : rows[t] # NoRow}
      id == IF used = {} THEN 1 ELSE (CHOOSE t \in used : \A u \in used : u <= t) + 1
  IN /\ id <= MaxTasks
     /\ rows' = [rows EXCEPT ![id] = NewRow(id, api_key, "a.mp3", 1, 0, "upload", NULL)]
     /\ seq' = IF id > seq THEN id ELSE seq
     /\ issued' = issued \cup {id}
     /\ ret' = Return("create_task", id, api_key, 0, <<"int", id>>)
     /\ UNCHANGED <<files, results, proc, response, now, calls>>

\* create_task(api_key, ...): the INSERT into the AUTOINCREMENT table, and
\* return cursor.lastrowid
CreateTask(api_key) ==
  LET id == seq + 1
  IN /\ id <= MaxTasks
     /\ rows' = [rows EXCEPT ![id] = NewRow(id, api_key, "a.mp3", 1, 0, "upload", NULL)]
     /\ seq' = id
     /\ issued' = issued \cup {id}
     /\ ret' = Return("create_task", id, api_key, 0, <<"int", id>>)
     /\ UNCHANGED <<files, results, proc, response, now, calls>>

\* The end of a pipeline that met no exception: the result file is written
\* and update_task(task_id, status='done', progress=100, result_file=...).
Complete(t) ==
  /\ rows[t] # NoRow
  /\ rows[t].status = IF rows[t].source_type = "youtube" THEN "processing" ELSE "pending"
  /\ results' = [results EXCEPT ![t] = <<Text(0)>>]
  /\ rows' = UpdateTask(rows, t, DoneFields(t))
  /\ UNCHANGED <<seq, files, proc, response, now, issued, ret, calls>>

\* A day passes.
Tick ==
  /\ now < MaxClock
  /\ now' = now + 1
  /\ UNCHANGED <<rows, seq, files, results, proc, response, issued, ret, calls>>

\* cleanup_old_result_files(days_old), called after cleanup_old_tasks: the
\* result artifacts linked by the task records past the retention time are
\* deleted.
CleanupOldResultFiles(fs, expired) ==
  [t \in DOMAIN fs |-> IF t \in expired THEN NoFile ELSE fs[t]]

\* startup_event: init_db() on a database that exists, cleanup_old_tasks
\* (days_old=10), whose return value is dropped, and cleanup_old_result_files
\* (days_old=10)
StartupEvent ==
  LET cleaned == CleanupOldTasks(rows, TASK_RETENTION_DAYS) IN
  /\ rows' = cleaned.rows
  /\ results' = CleanupOldResultFiles(results, Expired(rows, TASK_RETENTION_DAYS))
  /\ ret' = Return("cleanup_old_tasks", 0, "", 0, cleaned.return)
  /\ UNCHANGED <<seq, files, proc, response, now, issued, calls>>

\* os.path.exists(task.result_file), fs being the content of the result
\* file of each task id
Exists(fs, result_file) ==
  /\ result_file # NoPath
  /\ result_file[2] \in DOMAIN fs
  /\ fs[result_file[2]] # NoFile

\* verify_api_key: HTTPException(401) unless the key is the configured one
VerifyApiKey(api_key) == api_key = VALID_API_KEY

\* mutant: the handler answers for every task that exists (if not task:)
GetStatusResponseWithoutOwnerCheck(db, fs, task_id, api_key) ==
  LET task == GetTask(db, task_id) IN
  IF ~VerifyApiKey(api_key)
    THEN Return("get_status", task_id, api_key, 401, <<>>)
  ELSE IF task = NoRow
    THEN Return("get_status", task_id, api_key, 404, <<>>)
  ELSE Return("get_status", task_id, api_key, 200,
              [status |-> task.status, progress |-> task.progress, error |-> task.error,
               has_result |-> Exists(fs, task.result_file),
               file_size |-> task.file_size, audio_duration |-> task.audio_duration,
               filename |-> task.filename, source_type |-> task.source_type])

\* GET /status/{task_id}
GetStatusResponse(db, fs, task_id, api_key) ==
  LET task == GetTask(db, task_id) IN
  IF ~VerifyApiKey(api_key)
    THEN Return("get_status", task_id, api_key, 401, <<>>)
  ELSE IF task = NoRow \/ task.api_key # api_key
    THEN Return("get_status", task_id, api_key, 404, <<>>)
  ELSE Return("get_status", task_id, api_key, 200,
              [status |-> task.status, progress |-> task.progress, error |-> task.error,
               has_result |-> Exists(fs, task.result_file),
               file_size |-> task.file_size, audio_duration |-> task.audio_duration,
               filename |-> task.filename, source_type |-> task.source_type])

\* mutant: the handler serves the linked path without looking for the file
DownloadResponseWithoutExists(db, fs, task_id, api_key) ==
  LET task == GetTask(db, task_id) IN
  IF ~VerifyApiKey(api_key)
    THEN Return("download", task_id, api_key, 401, <<>>)
  ELSE IF task = NoRow \/ task.api_key # api_key
    THEN Return("download", task_id, api_key, 404, <<>>)
  ELSE IF task.status # "done" \/ task.result_file = NoPath
    THEN Return("download", task_id, api_key, 400, <<>>)
  ELSE Return("download", task_id, api_key, 200, fs[task.result_file[2]])

\* GET /download/{task_id}: the FileResponse carries the content of the
\* result file
DownloadResponse(db, fs, task_id, api_key) ==
  LET task == GetTask(db, task_id) IN
  IF ~VerifyApiKey(api_key)
    THEN Return("download", task_id, api_key, 401, <<>>)
  ELSE IF task = NoRow \/ task.api_key # api_key
    THEN Return("download", task_id, api_key, 404, <<>>)
  ELSE IF task.status # "done" \/ task.result_file = NoPath
    THEN Return("download", task_id, api_key, 400, <<>>)
  ELSE IF ~Exists(fs, task.result_file)
    THEN Return("download", task_id, api_key, 404, <<>>)
  ELSE Return("download", task_id, api_key, 200, fs[task.result_file[2]])

\* GET /: the redirect to /login, or the page with get_tasks_for_key(api_key)
HomeResponses(db, api_key) ==
  IF ~VerifyApiKey(api_key)
    THEN {Return("home", 0, api_key, 307, <<>>)}
    ELSE {Return("home", 0, api_key, 200, tasks) : tasks \in GetTasksForKey(db, api_key)}

GetStatus(task_id, api_key) ==
  /\ ret' = GetStatusResponse(rows, results, task_id, api_key)
  /\ UNCHANGED <<rows, seq, files, results, proc, response, now, issued, calls>>

Download(task_id, api_key) ==
  /\ ret' = DownloadResponse(rows, results, task_id, api_key)
  /\ UNCHANGED <<rows, seq, files, results, proc, response, now, issued, calls>>

Home(api_key) ==
  /\ ret' \in HomeResponses(rows, api_key)
  /\ UNCHANGED <<rows, seq, files, results, proc, response, now, issued, calls>>

\* The store over the days: tasks are created and completed, days pass and
\* the server is started again.
StoreNext ==
  \/ \E api_key \in Keys : CreateTask(api_key)
  \/ \E t \in TaskIds : Complete(t)
  \/ Tick
  \/ StartupEvent

SpecStore == StoreInit /\ [][StoreNext]_vars

\* The read handlers on a store in which tasks are created and completed.
ReadsNext ==
  \/ \E api_key \in Keys : CreateTask(api_key)
  \/ \E t \in TaskIds : Complete(t)
  \/ \E task_id \in TaskIds, api_key \in Keys : GetStatus(task_id, api_key)
  \/ \E task_id \in TaskIds, api_key \in Keys : Download(task_id, api_key)
  \/ \E api_key \in Keys : Home(api_key)

SpecReads == StoreInit /\ [][ReadsNext]_vars

(* ------------------- downloads along the life of a task --------------- *)

\* create_task(api_key, title, 0, None, source_type="youtube", source_url=url)
CreateYoutubeTask(api_key) ==
  LET id == seq + 1
  IN /\ id <= MaxTasks
     /\ rows' = [rows EXCEPT ![id] = NewRow(id, api_key, "title", 0, 0, "youtube", "url")]
     /\ seq' = id
     /\ issued' = issued \cup {id}
     /\ ret' = Return("create_task", id, api_key, 0, <<"int", id>>)
     /\ UNCHANGED <<files, results, proc, response, now, calls>>

\* process_youtube_url: update_task(task_id, status='downloading', progress=5)
Downloading(t) ==
  /\ rows[t] # NoRow
  /\ rows[t].source_type = "youtube"
  /\ rows[t].status = "pending"
  /\ rows' = UpdateTask(rows, t, [status |-> "downloading", progress |-> DOWNLOADING_PROGRESS])
  /\ UNCHANGED <<seq, files, results, proc, response, now, issued, ret, calls>>

\* process_youtube_url: update_task(task_id, status='processing', progress=10, ...)
Processing(t) ==
  /\ rows[t] # NoRow
  /\ rows[t].status = "downloading"
  /\ rows' = UpdateTask(rows, t, ProcessingFields(SEGMENT_DURATION))
  /\ UNCHANGED <<seq, files, results, proc, response, now, issued, ret, calls>>

\* The end of a pipeline that met an exception, before the result file was
\* opened or after it was written: update_task(task_id, status='error',
\* progress=..., error=str(e)).
Fail(t, written) ==
  /\ rows[t] # NoRow
  /\ rows[t].status \in {"pending", "downloading", "processing"}
  /\ written => rows[t].status = IF rows[t].source_type = "youtube"
                                    THEN "processing" ELSE "pending"
  /\ results' = IF written THEN [results EXCEPT ![t] = <<Text(0)>>] ELSE results
  /\ rows' = UpdateTask(rows, t,
       [status |-> "error",
        progress |-> IF rows[t].source_type = "youtube" /\ rows[t].status # "processing"
                       THEN YT_ERROR_PROGRESS ELSE PAF_ERROR_PROGRESS,
        error |-> UNEXPECTED_ERROR])
  /\ UNCHANGED <<seq, files, proc, response, now, issued, ret, calls>>

\* The result file of task t is no longer in the results directory, which
\* download looks into with os.path.exists before it answers.
ResultFileLost(t) ==
  /\ results[t] # NoFile
  /\ results' = [results EXCEPT ![t] = NoFile]
  /\ UNCHANGED <<rows, seq, files, proc, response, now, issued, ret, calls>>

\* Downloads are asked for while tasks are created, run to their end and
\* lose their result file.
DownloadNext ==
  \/ CreateTask(VALID_API_KEY)
  \/ CreateYoutubeTask(VALID_API_KEY)
  \/ \E t \in TaskIds : Downloading(t)
  \/ \E t \in TaskIds : Processing(t)
  \/ \E t \in TaskIds : Complete(t)
  \/ \E t \in TaskIds, written \in BOOLEAN : Fail(t, written)
  \/ \E t \in TaskIds : ResultFileLost(t)
  \/ \E task_id \in TaskIds, api_key \in Keys : Download(task_id, api_key)

SpecDownload == StoreInit /\ [][DownloadNext]_vars

(* --------------------- requests of several inputs --------------------- *)

\* Longest list of files, or of lines, that one request carries.
MaxInputs == 2

\* One file of a request: what it is, and what ffprobe says of its duration.
FileInputs ==
  {[kind |-> kind, D |-> SEGMENT_DURATION, probed |-> probed] :
     kind \in FileKinds \ {"ok"}, probed \in {0}}
  \cup {[kind |-> "ok", D |-> SEGMENT_DURATION, probed |-> probed] :
     probed \in ProbeResults(SEGMENT_DURATION)}

\* One line of the urls field: what it is, and whether create_task returns.
UrlInputs ==
  {[kind |-> "invalid", created |-> TRUE]}
  \cup {[kind |-> "valid", created |-> created] : created \in BOOLEAN}

\* the lists of one to MaxInputs elements of S
Batches(S) ==
  UNION {[1 .. n -> S] : n \in 1 .. MaxInputs}

\* the inputs of a request that pass validation and get a task
Accepted(batch) ==
  {k \in DOMAIN batch :
     \/ batch[k].kind = "ok"
     \/ batch[k].kind = "valid" /\ batch[k].created}

\* What a handler has built while it walks its inputs.
Walk(db, n, fs, ps, ids, task_ids) ==
  [rows |-> db, seq |-> n, files |-> fs, proc |-> ps, issued |-> ids,
   task_ids |-> task_ids]

\* for file in files: of transcribe_files, from file k on.  A file with no
\* name or an extension other than .mp3/.m4a/.wav is passed over; a file of
\* more than 500MB is written and removed again; a stream that fails leaves
\* the except clause to remove what was written.
RECURSIVE FilesLoop(_, _, _, _)
FilesLoop(w, batch, k, summarize) ==
  IF k > Len(batch) THEN w
  ELSE LET task_id == w.seq + 1 IN
    FilesLoop(
      IF batch[k].kind = "ok"
        THEN Walk([w.rows EXCEPT ![task_id] =
                     NewRow(task_id, VALID_API_KEY, "a.mp3", 1, batch[k].probed,
                            "upload", NULL)],
                  task_id,
                  w.files \cup {UploadPath(task_id)},
                  AddTask(w.proc, task_id,
                    [IdleProc EXCEPT !.pc = "paf_start", !.source_type = "upload",
                                     !.summarize = summarize, !.D = batch[k].D,
                                     !.file_path = UploadPath(task_id),
                                     !.initial_progress = 0]),
                  w.issued \cup {task_id},
                  Append(w.task_ids, task_id))
        ELSE w,
      batch, k + 1, summarize)

\* POST /transcribe with the files of batch.
TranscribeFilesBatch(batch, summarize) ==
  /\ seq + Cardinality(Accepted(batch)) <= MaxTasks
  /\ LET w == FilesLoop(Walk(rows, seq, files, proc, issued, <<>>), batch, 1, summarize)
     IN /\ rows' = w.rows
        /\ seq' = w.seq
        /\ files' = w.files
        /\ proc' = w.proc
        /\ issued' = w.issued
        /\ response' = IF w.task_ids = <<>> THEN 400 ELSE 200
        /\ ret' = Return("transcribe_files", 0, VALID_API_KEY,
                         IF w.task_ids = <<>> THEN 400 ELSE 200, w.task_ids)
  /\ UNCHANGED <<results, now, calls>>

\* for url in url_list: of transcribe_youtube, from line k on.  url_list
\* holds the lines that start with http:// or https://; a create_task that
\* raises is logged and the next line is taken.
RECURSIVE UrlsLoop(_, _, _, _)
UrlsLoop(w, batch, k, summarize) ==
  IF k > Len(batch) THEN w
  ELSE LET task_id == w.seq + 1 IN
    UrlsLoop(
      IF batch[k].kind = "valid" /\ batch[k].created
        THEN Walk([w.rows EXCEPT ![task_id] =
                     NewRow(task_id, VALID_API_KEY, "title", 0, 0, "youtube", "url")],
                  task_id,
                  w.files,
                  AddTask(w.proc, task_id,
                    [IdleProc EXCEPT !.pc = "yt_start", !.source_type = "youtube",
                                     !.summarize = summarize, !.D = SEGMENT_DURATION]),
                  w.issued \cup {task_id},
                  Append(w.task_ids, task_id))
        ELSE w,
      batch, k + 1, summarize)

\* POST /transcribe-youtube with the lines of batch.
TranscribeYoutubeBatch(batch, summarize) ==
  /\ seq + Cardinality(Accepted(batch)) <= MaxTasks
  /\ LET w == UrlsLoop(Walk(rows, seq, files, proc, issued, <<>>), batch, 1, summarize)
     IN /\ rows' = w.rows
        /\ seq' = w.seq
        /\ files' = w.files
        /\ proc' = w.proc
        /\ issued' = w.issued
        /\ response' = IF w.task_ids = <<>> THEN 400 ELSE 200
        /\ ret' = Return("transcribe_youtube", 0, VALID_API_KEY,
                         IF w.task_ids = <<>> THEN 400 ELSE 200, w.task_ids)
  /\ UNCHANGED <<results, now, calls>>

\* The submission handlers serve one request after the other; the pipelines
\* they dispatch have not taken a step yet.
SubmitNext ==
  \E summarize \in BOOLEAN :
    \/ \E batch \in Batches(FileInputs) : TranscribeFilesBatch(batch, summarize)
    \/ \E batch \in Batches(UrlInputs) : TranscribeYoutubeBatch(batch, summarize)

SpecSubmit == Init /\ [][SubmitNext]_vars

(* -------------------- two pipelines side by side ---------------------- *)

\* The files of one request whose pipelines run side by side: two media of
\* two segments each.
PairInputs ==
  {[kind |-> "ok", D |-> SEGMENT_DURATION + 1, probed |-> SEGMENT_DURATION + 1]}

\* The state after POST /transcribe with two files and summarize=false has
\* created and dispatched two tasks.
PairInit ==
  /\ now = 0
  /\ results = [t \in TaskIds |-> NoFile]
  /\ response = 200
  /\ ret = NoReturn
  /\ calls = [c \in Callers |-> IdleCall]
  /\ \E n \in 0 .. (MaxTasks - 2), batch \in [1 .. 2 -> PairInputs] :
       LET w == FilesLoop(Walk([t \in TaskIds |-> NoRow], n, {},
                               [t \in TaskIds |-> IdleProc], 1 .. n, <<>>),
                          batch, 1, FALSE)
       IN /\ rows = w.rows
          /\ seq = w.seq
          /\ files = w.files
          /\ proc = w.proc
          /\ issued = w.issued

\* one step of process_audio_from_file for task t, without summarization
PafPipeline(t) ==
  \/ TrStart(t)
  \/ SegExtract(t)
  \/ SegUpload(t)
  \/ SegSleep(t)
  \/ SegGetFile(t)
  \/ SegGenerate(t)
  \/ SegProgress(t)
  \/ TrReturn(t)
  \/ PafWrite(t)
  \/ PafDone(t)
  \/ PafExcept(t)
  \/ PafFinally(t)

\* The event loop runs the two pipelines in any order.
PairNext == \E t \in TaskIds : PafPipeline(t)

SpecPair == PairInit /\ [][PairNext]_vars

(* ------------------------------ claims -------------------------------- *)

HasRow(t) == rows[t] # NoRow

Terminal(t) == HasRow(t) /\ rows[t].status \in {"done", "error"}

\* the status changes the state machine pending -> (downloading ->
\* processing | processing) -> (done | error) allows, error being reachable
\* from every earlier state
AllowedStatusChange(source_type) ==
  {<<"pending", "processing">>, <<"processing", "done">>,
   <<"pending", "error">>, <<"processing", "error">>}
  \cup (IF source_type = "youtube"
          THEN {<<"pending", "downloading">>, <<"downloading", "processing">>,
                <<"downloading", "error">>}
          ELSE {})

\* C1: every change of a task's status is a step of pending -> (downloading
\* -> processing | processing) -> (done | error): a task is created pending,
\* only a URL task is ever downloading, a task is processing before it is
\* done, and no status is followed by an earlier one.
C1_StatusSequence ==
  [][\A t \in TaskIds :
       /\ (~HasRow(t) /\ rows'[t] # NoRow) => rows'[t].status = "pending"
       /\ (HasRow(t) /\ rows'[t] # NoRow /\ rows'[t].status # rows[t].status)
            => <<rows[t].status, rows'[t].status>>
                 \in AllowedStatusChange(rows[t].source_type)]_vars

\* C2: once a task is done or error, no step of its pipeline changes its
\* status, progress, result_file or error.
C2_TerminalFrozen ==
  [][\A t \in TaskIds :
       (Terminal(t) /\ Pipeline(t))
         => /\ rows'[t] # NoRow
            /\ rows'[t].status = rows[t].status
            /\ rows'[t].progress = rows[t].progress
            /\ rows'[t].result_file = rows[t].result_file
            /\ rows'[t].error = rows[t].error]_vars

\* a URL task that failed inside process_audio_from_file and whose pipeline
\* has run to its end through both finally blocks
C2_Witness ==
  \E t \in TaskIds :
    /\ Terminal(t)
    /\ rows[t].status = "error"
    /\ proc[t].pc = "finished"
    /\ proc[t].source_type = "youtube"
    /\ proc[t].file_path # NoPath

\* C3: every dispatched task eventually is done or error.
C3_EventuallyTerminal ==
  \A t \in TaskIds : (proc[t].pc # "none") ~> Terminal(t)

\* C4: no write of a pipeline lowers the progress of its task.
C4_ProgressNonDecreasing ==
  [][\A t \in TaskIds :
       (HasRow(t) /\ rows'[t] # NoRow) => rows'[t].progress >= rows[t].progress]_vars

\* C5: a task's progress is 100 exactly when its status is done.
C5_ProgressHundredIffDone ==
  \A t \in TaskIds :
    HasRow(t) => ((rows[t].progress = 100) <=> (rows[t].status = "done"))

\* C6: result_file is set exactly when the status is done, and error is set
\* exactly when the status is error; hence a terminal task has exactly one of
\* the two and a task that is not terminal has neither.
C6_ResultXorError ==
  \A t \in TaskIds :
    HasRow(t) =>
      /\ (rows[t].result_file # NoPath) <=> (rows[t].status = "done")
      /\ (rows[t].error # NULL) <=> (rows[t].status = "error")

\* a task that is done although its summarization failed
C6_Witness ==
  \E t \in TaskIds :
    /\ HasRow(t)
    /\ rows[t].status = "done"
    /\ rows[t].result_file = ResultPath(t)
    /\ rows[t].error = NULL
    /\ proc[t].summarize
    /\ results[t] = Compose(EmptySummary, proc[t].transcript)

\* the documents process_audio_from_file composes from the entries of full_text
ComposedResults(p) ==
  IF p.summarize
    THEN {Compose(SummaryText, Join(p.full_text)), Compose(EmptySummary, Join(p.full_text))}
    ELSE {Join(p.full_text)}

\* C7: the step that sets the status done finds the result artifact written
\* with the whole composed document, and sets progress = 100 and result_file
\* to that artifact in the same update.
C7_DoneAfterWrite ==
  [][\A t \in TaskIds :
       (rows'[t] # NoRow /\ rows'[t].status = "done"
          /\ (~HasRow(t) \/ rows[t].status # "done"))
         => /\ results[t] = proc[t].result
            /\ results[t] \in ComposedResults(proc[t])
            /\ results'[t] = results[t]
            /\ rows'[t].progress = 100
            /\ rows'[t].result_file = ResultPath(t)]_vars

\* a task just set done whose artifact holds a summary and two segments
C7_Witness ==
  \E t \in TaskIds :
    /\ HasRow(t)
    /\ rows[t].status = "done"
    /\ proc[t].pc = "paf_finally"
    /\ proc[t].num_segments = 2
    /\ results[t] = Compose(SummaryText, Join(proc[t].full_text))

C8_FromPending ==
  \E t \in TaskIds :
    /\ proc[t].pc = "paf_except"
    /\ rows[t].status = "pending"

\* a URL task whose download fails while downloading
C8_FromDownloading ==
  \E t \in TaskIds :
    /\ proc[t].pc = "yt_except"
    /\ rows[t].status = "downloading"
    /\ proc[t].e = DOWNLOAD_ERROR

\* C9: the update that sets the status error leaves progress as it was.
C9_ErrorKeepsProgress ==
  [][\A t \in TaskIds :
       (HasRow(t) /\ rows'[t] # NoRow
          /\ rows'[t].status = "error" /\ rows[t].status # "error")
         => rows'[t].progress = rows[t].progress]_vars

\* the entries one segment can contribute to the transcript
SegmentEntries(k) == {Text(k), NoContent(k), ExtractFailed(k), SegmentError(k)}

\* the positions of the pipeline inside the extraction and transcription of a segment
SegmentWork == {"seg_extract", "seg_upload", "seg_get_file", "seg_generate"}

\* C10: when the extraction or transcription of segment k fails, its sentinel
\* marker is entry k of the transcript and the loop goes on to segment k + 1;
\* a segment that is transcribed contributes its text as its own entry; and a
\* pipeline that ends without a task-level exception ends done.
C10_SegmentFailureIsolated ==
  /\ [][\A t \in TaskIds :
          (proc[t].pc \in SegmentWork /\ proc'[t].full_text # proc[t].full_text)
            => /\ Len(proc'[t].full_text) = proc[t].i + 1
               /\ proc'[t].full_text[proc[t].i + 1] \in SegmentEntries(proc[t].i)
               /\ \A j \in 1 .. proc[t].i :
                    proc'[t].full_text[j] \in SegmentEntries(j - 1)
               /\ proc'[t].pc # "seg_progress"
                    => /\ proc'[t].full_text[proc[t].i + 1]
                            \in {ExtractFailed(proc[t].i), SegmentError(proc[t].i)}
                       /\ IF proc[t].i + 1 < proc[t].num_segments
                            THEN proc'[t].pc = "seg_extract" /\ proc'[t].i = proc[t].i + 1
                            ELSE proc'[t].pc = "tr_return"]_vars
  /\ [](\A t \in TaskIds :
          (proc[t].pc = "finished" /\ proc[t].e = "") => rows[t].status = "done")

\* C11: when a summary was requested and summarize_with_grok returned an empty
\* summary with an error detail, the artifact written for the task is the
\* transcript alone, without a summary header.
C11_FailedSummaryLeavesTranscript ==
  \A t \in TaskIds :
    (HasRow(t) /\ rows[t].status = "done" /\ proc[t].summarize /\ proc[t].info # "")
      => /\ results[t] = proc[t].transcript
         /\ \A k \in 1 .. Len(results[t]) : results[t][k] # SummaryHeader

\* C12: a failure of the summarization stage (an HTTP error, an unexpected
\* response, any exception inside summarize_with_grok, its progress update
\* included) never reaches the task's exception handler: the step goes on to
\* the result write with the status and the error of the task untouched, and
\* a pipeline that ends without another exception ends done, not error.
C12_SummaryFailureNotFatal ==
  /\ [][\A t \in TaskIds :
          (proc[t].pc \in {"sum_progress", "sum_post"} /\ proc'[t].pc # proc[t].pc)
            => /\ proc'[t].pc \in {"sum_post", "paf_write"}
               /\ proc'[t].info # "" => proc'[t].pc = "paf_write"
               /\ proc'[t].e = ""
               /\ rows'[t].status = rows[t].status
               /\ rows'[t].status \notin {"done", "error"}
               /\ rows'[t].error = NULL]_vars
  /\ [](\A t \in TaskIds :
          (proc[t].info # "" /\ proc[t].pc = "finished" /\ proc[t].e = "")
            => /\ rows[t].status = "done"
               /\ rows[t].error = NULL)

\* a task that is done although the progress update of its summarization raised
C12_Witness ==
  \E t \in TaskIds :
    /\ proc[t].pc = "finished"
    /\ proc[t].summarize
    /\ proc[t].info = UNEXPECTED_ERROR
    /\ HasRow(t)
    /\ rows[t].status = "done"
    /\ rows[t].progress = 100

\* C13: for every duration D > 0 the loop runs over exactly ceil(D / L)
\* windows, L being SEGMENT_DURATION; window i is [i*L, min((i+1)*L, D)): it
\* is not empty, the first starts at 0, each starts where the one before it
\* ended (no gap, no overlap), and the loop ends exactly with the window
\* that ends at D.
C13_WindowsPartition ==
  [][\A t \in TaskIds :
       (proc[t].pc = "seg_extract" /\ proc'[t] # proc[t])
         => LET D == proc[t].duration_seconds
                L == SEGMENT_DURATION
                i == proc[t].i
            IN /\ proc'[t].start_sec = i * L
               /\ proc'[t].end_sec = IF (i + 1) * L < D THEN (i + 1) * L ELSE D
               /\ proc'[t].start_sec < proc'[t].end_sec
               /\ proc'[t].start_sec = proc[t].end_sec
               /\ proc'[t].end_sec - proc'[t].start_sec <= L
               /\ (proc'[t].pc = "tr_return") <=> (proc'[t].end_sec = D)
               /\ proc'[t].pc = "tr_return"
                    => /\ (i + 1) * L >= D
                       /\ i * L < D
                       /\ i + 1 = proc[t].num_segments
                       /\ Len(proc'[t].full_text) = i + 1
               /\ proc'[t].pc # "tr_return"
                    => proc'[t].pc = "seg_extract" /\ proc'[t].i = i + 1]_vars

\* the loop over 1260 seconds has ended after [0,600), [600,1200), [1200,1260)
C13_Witness ==
  \E t \in TaskIds :
    /\ proc[t].pc = "tr_return"
    /\ proc[t].duration_seconds = 1260
    /\ proc[t].i = 2
    /\ proc[t].start_sec = 1200
    /\ proc[t].end_sec = 1260
    /\ Len(proc[t].full_text) = 3

\* the loop over an exact multiple of the segment length has ended with a
\* full window and no empty one after it
C13_ExactMultiple ==
  \E t \in TaskIds :
    /\ proc[t].pc = "tr_return"
    /\ proc[t].duration_seconds = 1800
    /\ proc[t].i = 2
    /\ proc[t].start_sec = 1200
    /\ proc[t].end_sec = 1800

\* the positions of a pipeline after the handler of process_audio_from_file
\* was entered
AfterException == {"paf_except", "paf_finally", "yt_finally", "finished"}

\* C14: when get_audio_duration cannot determine the duration (it fails,
\* times out or yields 0) the task is aborted: no segment is processed and the
\* task ends in status error with a message.
C14_NoDurationAborts ==
  \A t \in TaskIds :
    proc[t].probed = 0
      => /\ proc[t].pc \in AfterException
         /\ proc[t].e # ""
         /\ proc[t].full_text = <<>>
         /\ proc[t].pc # "paf_except"
              => /\ HasRow(t)
                 /\ rows[t].status = "error"
                 /\ rows[t].error # NULL

\* the caller whose update_task commits in this step
Commits(c) == calls[c].pc = "executed" /\ calls'[c].pc = "returned"

\* C15: update_task(task_id, fields...) changes exactly the supplied fields of
\* the task with that id: each supplied field takes the supplied value, every
\* other field keeps its value, and every other task's record is unchanged;
\* the store changes in no other step of a call.
C15_UpdateChangesSuppliedOnly ==
  [][/\ \A c \in Callers :
          Commits(c)
            => LET task_id == calls[c].task_id
                   fields == calls[c].fields
               IN /\ DOMAIN rows'[task_id] = DOMAIN rows[task_id]
                  /\ \A f \in DOMAIN fields : rows'[task_id][f] = fields[f]
                  /\ \A f \in DOMAIN rows[task_id] \ DOMAIN fields :
                       rows'[task_id][f] = rows[task_id][f]
                  /\ \A u \in TaskIds \ {task_id} : rows'[u] = rows[u]
     /\ rows' # rows => \E c \in Callers : Commits(c)]_vars

\* the error update has overwritten status, progress and error of task 1,
\* whose progress another call had set before, and nothing else
C15_Witness ==
  \E c, c2 \in Callers :
    /\ calls[c].pc = "returned"
    /\ calls[c].task_id = 1
    /\ calls[c].fields = YtErrorFields(DOWNLOAD_ERROR)
    /\ calls[c2].pc = "returned"
    /\ calls[c2].task_id = 1
    /\ calls[c2].fields = [audio_duration |-> SEGMENT_DURATION]
    /\ rows[1] = [PendingRows[1] EXCEPT !.status = "error", !.progress = 0,
                                        !.error = DOWNLOAD_ERROR,
                                        !.audio_duration = SEGMENT_DURATION]
    /\ \A u \in TaskIds \ {1} : rows[u] = PendingRows[u]

\* the callers whose update_task has returned
Returned == {c \in Callers : calls[c].pc = "returned"}

\* the store after the calls o[k], o[k+1], ... have run one after the other on db
RECURSIVE Serial(_, _, _)
Serial(db, o, k) ==
  IF k > Len(o) THEN db
  ELSE Serial(UpdateTask(db, calls[o[k]].task_id, calls[o[k]].fields), o, k + 1)

\* C16: under every interleaving of concurrent update_task calls no update is
\* lost: the store is what the calls that have returned give when run one
\* after the other in some order, and every field a returned call supplied
\* holds the value of a returned call that supplied it.
C16_NoLostUpdate ==
  /\ \E o \in Orders(Returned) : rows = Serial(PendingRows, o, 1)
  /\ \A c \in Returned :
       \A f \in DOMAIN calls[c].fields :
         \E c2 \in Returned :
           /\ calls[c2].task_id = calls[c].task_id
           /\ f \in DOMAIN calls[c2].fields
           /\ rows[calls[c].task_id][f] = calls[c2].fields[f]

\* a progress update and a metadata update of the same task have both
\* returned and the record holds both values
C16_Witness ==
  \E c, c2 \in Callers, t \in TaskIds :
    /\ calls[c].pc = "returned"
    /\ calls[c2].pc = "returned"
    /\ calls[c].task_id = t
    /\ calls[c2].task_id = t
    /\ calls[c].fields = [progress |-> SUMMARY_PROGRESS]
    /\ calls[c2].fields = [audio_duration |-> SEGMENT_DURATION]
    /\ rows[t].progress = SUMMARY_PROGRESS
    /\ rows[t].audio_duration = SEGMENT_DURATION

\* two calls on the same task are in flight, one holding the write lock
C16_Interleaved ==
  \E c, c2 \in Callers :
    /\ calls[c].pc = "executed"
    /\ calls[c2].pc = "connected"
    /\ calls[c].task_id = calls[c2].task_id

\* C17: no read crosses owners: the status query and the result retrieval
\* return data only when the supplied key is the owner key of the task, and
\* answer 404 to a key the server accepts that is not the owner's; the list of
\* get_tasks_for_key(k) holds exactly the tasks owned by k; and no step
\* changes the owner key of a task.
C17_NoCrossOwnerRead ==
  [][/\ \A task_id \in TaskIds, api_key \in Keys :
          (GetStatus(task_id, api_key) \/ Download(task_id, api_key))
            => /\ ret'.code = 200
                    => /\ HasRow(task_id)
                       /\ rows[task_id].api_key = api_key
               /\ ret'.code # 200 => ret'.data = <<>>
               /\ (HasRow(task_id) /\ rows[task_id].api_key # api_key)
                    => ret'.code \in {401, 404}
               /\ (HasRow(task_id) /\ rows[task_id].api_key # api_key
                      /\ VerifyApiKey(api_key))
                    => ret'.code = 404
     /\ \A api_key \in Keys :
          Home(api_key)
            => /\ \A k \in 1 .. Len(ret'.data) : ret'.data[k].api_key = api_key
               /\ ret'.code = 200
                    => {ret'.data[k].id : k \in 1 .. Len(ret'.data)}
                         = {t \in TaskIds : HasRow(t) /\ rows[t].api_key = api_key}
     /\ \A t \in TaskIds :
          (HasRow(t) /\ rows'[t] # NoRow) => rows'[t].api_key = rows[t].api_key]_vars

\* the status of a task owned by another key was asked for with the key the
\* server accepts, and the answer was 404
C17_Witness ==
  /\ ret.op = "get_status"
  /\ ret.api_key = VALID_API_KEY
  /\ ret.code = 404
  /\ HasRow(ret.task_id)
  /\ rows[ret.task_id].api_key = OTHER_API_KEY
  /\ rows[ret.task_id].status = "done"

\* the owner has downloaded the result of its task
C17_OwnerReads ==
  /\ ret.op = "download"
  /\ ret.code = 200
  /\ rows[ret.task_id].api_key = ret.api_key
  /\ ret.data = results[ret.task_id]

C19_CleanupReturnsCount ==
  [][StartupEvent
       => LET old == {t \in TaskIds : HasRow(t)
                                        /\ rows[t].created_at < now - TASK_RETENTION_DAYS}
          IN /\ \A t \in old : rows'[t] = NoRow
             /\ \A t \in TaskIds \ old : rows'[t] = rows[t]
             /\ ret'.op = "cleanup_old_tasks"
             /\ ret'.data = <<"int", Cardinality(old)>>]_vars

\* C20: task ids are unique and never change: create_task returns an id that
\* no earlier create_task returned, also when the earlier task has been
\* purged, so that the new task finds no row and no result artifact under its
\* id; and the id of a row never changes.
C20_IdsNeverReused ==
  [][/\ \A api_key \in Keys :
          CreateTask(api_key)
            => /\ ret'.data = <<"int", ret'.task_id>>
               /\ ret'.task_id \notin issued
               /\ rows[ret'.task_id] = NoRow
               /\ results[ret'.task_id] = NoFile
               /\ rows'[ret'.task_id].id = ret'.task_id
               /\ \A t \in TaskIds \ {ret'.task_id} : rows'[t] = rows[t]
     /\ \A t \in TaskIds :
          /\ HasRow(t) => rows[t].id = t
          /\ (HasRow(t) /\ rows'[t] # NoRow) => rows'[t].id = rows[t].id]_vars

\* task 2 was created after task 1 had been purged
C20_Witness ==
  /\ ret.op = "create_task"
  /\ MaxTasks >= 2
  /\ ret.task_id = 2
  /\ 1 \in issued
  /\ rows[1] = NoRow
  /\ HasRow(2)
  /\ rows[2].created_at > TASK_RETENTION_DAYS

\* the pipeline that a submission handler schedules for a task of this type
StartOf(source_type) ==
  IF source_type = "youtube" THEN "yt_start" ELSE "paf_start"

\* C21: each created task is dispatched exactly once.  The step of a
\* submission handler that creates the row of task t adds exactly one
\* background task for t, the pipeline of its source type, and a step adds a
\* background task for t only when it creates t's row under an id that was
\* never issued.
C21_DispatchedExactlyOnce ==
  [][\A t \in TaskIds :
       /\ (~HasRow(t) /\ rows'[t] # NoRow) =>
            /\ proc'[t].scheduled = 1
            /\ proc'[t].pc = StartOf(rows'[t].source_type)
       /\ proc'[t].scheduled # proc[t].scheduled =>
            /\ ~HasRow(t) /\ rows'[t] # NoRow
            /\ t \notin issued
            /\ proc[t].scheduled = 0]_vars

\* one request of two files has created and dispatched two tasks
C21_Witness ==
  /\ ret.op = "transcribe_files"
  /\ Len(ret.data) = 2
  /\ \A k \in 1 .. 2 :
       /\ HasRow(ret.data[k])
       /\ proc[ret.data[k]].scheduled = 1
       /\ proc[ret.data[k]].pc = "paf_start"

\* the inputs of a request that fail validation
Invalid(batch) ==
  {k \in DOMAIN batch : batch[k].kind \in {"unsupported", "oversize", "invalid"}}

\* what C22 asks of a step that serves a request with an input that fails
\* validation: tasks for the other inputs only, every existing task as it
\* was, and an error for the caller
Rejected(batch) ==
  Invalid(batch) # {} =>
    /\ Len(ret'.data) = Cardinality(Accepted(batch))
    /\ \A t \in TaskIds : HasRow(t) => rows'[t] = rows[t] /\ proc'[t] = proc[t]
    /\ \A t \in TaskIds : ~HasRow(t) /\ rows'[t] # NoRow =>
         \E k \in DOMAIN ret'.data : ret'.data[k] = t
    /\ ret'.code >= 400
    /\ response' >= 400

\* C22: a submission input that fails validation (unsupported file type,
\* more than 500MB, a line that is not a URL) creates no task, dispatches no
\* pipeline, leaves every existing task unchanged and is surfaced to the
\* caller as an error.
C22_InvalidInputIsAnError ==
  [][\A summarize \in BOOLEAN :
       /\ \A batch \in Batches(FileInputs) :
            TranscribeFilesBatch(batch, summarize) => Rejected(batch)
       /\ \A batch \in Batches(UrlInputs) :
            TranscribeYoutubeBatch(batch, summarize) => Rejected(batch)]_vars

\* the result of task_id can be retrieved: the task is done and its result
\* artifact is on disk
Retrievable(task_id) ==
  /\ HasRow(task_id)
  /\ rows[task_id].status = "done"
  /\ results[task_id] # NoFile

\* C23: result retrieval succeeds only for a task whose status is 'done' and
\* whose result artifact still exists on disk, and then returns the content
\* of the artifact; in every other state (pending, downloading, processing,
\* error, artifact removed) it returns an error and no content.
C23_DownloadOnlyWhenDone ==
  [][\A task_id \in TaskIds, api_key \in Keys :
       Download(task_id, api_key)
         => /\ ret'.code = 200
                 => Retrievable(task_id) /\ ret'.data = results[task_id]
            /\ ~Retrievable(task_id)
                 => ret'.code >= 400 /\ ret'.data = <<>>
            /\ (Retrievable(task_id) /\ rows[task_id].api_key = api_key
                   /\ VerifyApiKey(api_key))
                 => ret'.code = 200]_vars

\* the owner asked for the result of a done task whose artifact was removed
C23_Witness ==
  /\ ret.op = "download"
  /\ ret.api_key = VALID_API_KEY
  /\ HasRow(ret.task_id)
  /\ rows[ret.task_id].status = "done"
  /\ rows[ret.task_id].result_file = ResultPath(ret.task_id)
  /\ results[ret.task_id] = NoFile
  /\ ret.code = 404
  /\ ret.data = <<>>

\* the owner asked for the result of a task that ended in error after its
\* result file was written
C23_ErrorTaskHasNoDownload ==
  /\ ret.op = "download"
  /\ ret.api_key = VALID_API_KEY
  /\ HasRow(ret.task_id)
  /\ rows[ret.task_id].status = "error"
  /\ results[ret.task_id] # NoFile
  /\ ret.code = 400

\* the positions of a pipeline inside one transcription of a segment: the
\* upload, the wait for the provider and generate_content
Transcribing == {"seg_upload", "seg_sleep", "seg_get_file", "seg_generate"}

\* the step appends the sentinel error marker of the segment under way
AppendsSentinel(t) ==
  /\ Len(proc'[t].full_text) = Len(proc[t].full_text) + 1
  /\ proc'[t].full_text[Len(proc'[t].full_text)] = SegmentError(proc[t].i)

\* C24: when the transcription of a segment fails the engine transcribes the
\* same segment again, up to 3 attempts in all, and puts the sentinel error
\* marker in the place of the segment only after the third attempt failed.
C24_SentinelAfterThreeAttempts ==
  [][\A t \in TaskIds :
       (proc[t].pc \in Transcribing /\ AppendsSentinel(t))
         => proc[t].attempt = 3]_vars

\* the positions of a pipeline inside the segment loop
InLoop == {"seg_extract"} \cup Transcribing \cup {"seg_progress"}

\* C25: when work on segment i+1 begins, and when the segmentation loop
\* returns, the local artifact of segment i no longer exists, whichever way
\* segment i ended: success, transcription exception or extraction failure,
\* a non-zero exit of the extractor that left an output file included.
C25_NoSegmentArtifactLeft ==
  \A t \in TaskIds :
    /\ proc[t].pc \in InLoop =>
         \A j \in 0 .. (proc[t].i - 1) : SegmentPath(t, j) \notin files
    /\ proc[t].pc = "tr_return" =>
         \A j \in 0 .. (proc[t].num_segments - 1) : SegmentPath(t, j) \notin files

\* the step ends the work on segment i of task t
EndsSegment(t) ==
  /\ proc[t].pc \in InLoop
  /\ \/ proc'[t].pc = "tr_return"
     \/ proc'[t].pc = "seg_extract" /\ proc'[t].i # proc[t].i

\* C27: the segments of one task are processed strictly one after another,
\* and for every segment i, transcribed or replaced by a sentinel marker,
\* the progress of the task is updated after segment i finishes and before
\* any work on segment i+1 begins.
C27_ProgressAfterEverySegment ==
  [][\A t \in TaskIds :
       /\ (proc[t].pc \in InLoop /\ proc'[t].pc \in InLoop)
            => proc'[t].i \in {proc[t].i, proc[t].i + 1}
       /\ EndsSegment(t)
            => rows'[t].progress =
                 SegmentProgress(proc[t].initial_progress, proc[t].i,
                                 proc[t].num_segments)]_vars

\* C28: every progress value written during the segmentation loop lies in
\* [initial_progress, 90], and when the loop has finished, whatever became
\* of its segments, the progress of the task is exactly 90 before
\* summarization or result writing start.
C28_ProgressIs90AfterLoop ==
  \A t \in TaskIds :
    /\ proc[t].pc \in InLoop =>
         /\ proc[t].initial_progress <= rows[t].progress
         /\ rows[t].progress <= SEGMENT_PROGRESS_END
    /\ proc[t].pc = "tr_return" => rows[t].progress = SEGMENT_PROGRESS_END

\* C30: the transcript the segmentation engine returns consists of exactly
\* num_segments entries joined by the uniform delimiter, entry i being the
\* text or the sentinel marker of segment i, in index order; no segment
\* contributes no entry or more than one, also when the progress update that
\* follows a successful transcription fails.
C30_OneEntryPerSegment ==
  \A t \in TaskIds :
    /\ proc[t].pc = "tr_return" =>
         /\ Len(proc[t].full_text) = proc[t].num_segments
         /\ \A k \in 1 .. Len(proc[t].full_text) :
              proc[t].full_text[k] \in SegmentEntries(k - 1)
    /\ proc[t].pc \in {"sum_progress", "sum_post", "paf_write"} =>
         /\ proc[t].transcript = Join(proc[t].full_text)
         /\ Len(proc[t].transcript) = 2 * proc[t].num_segments - 1

\* task t is an upload whose audio fits in one segment, and that segment was
\* transcribed
SingleSegmentUpload(t) ==
  /\ HasRow(t)
  /\ rows[t].source_type = "upload"
  /\ proc[t].pc \notin {"none", "paf_start"}
  /\ proc[t].num_segments = 1
  /\ proc[t].pc \notin InLoop => proc[t].full_text = <<Text(0)>>

\* C29: an upload task whose audio fits in a single segment takes the
\* progress values 0, then 90 in a single update, then 100 at the 'done'
\* update after the result write, and no other value in between, with or
\* without summarization.
C29_SingleSegmentProgress ==
  [][\A t \in TaskIds :
       (SingleSegmentUpload(t) /\ rows'[t] # NoRow
          /\ rows'[t].status # "error"
          /\ rows'[t].progress # rows[t].progress)
         => \/ rows[t].progress = 0 /\ rows'[t].progress = SEGMENT_PROGRESS_END
            \/ /\ rows[t].progress = SEGMENT_PROGRESS_END
               /\ rows'[t].progress = DONE_PROGRESS
               /\ rows'[t].status = "done"]_vars

\* a / b rounded to the nearest integer, a tie going to the even one as
\* Python's round does
Round(a, b) ==
  LET q == a \div b
      r == a % b
  IN IF 2 * r < b THEN q
     ELSE IF 2 * r > b THEN q + 1
     ELSE IF q % 2 = 0 THEN q ELSE q + 1

\* C26: after segment i (0-based) of a task with num_segments segments the
\* progress written is initial_progress + round((i+1)/num_segments *
\* (90 - initial_progress)), rounded to the nearest integer; a URL task with
\* 3 segments and initial_progress = 10 is updated to 37, 63 and 90.
C26_ProgressRoundedToNearest ==
  [][\A t \in TaskIds :
       (proc[t].pc = "seg_extract" /\ proc'[t] # proc[t])
         => rows'[t].progress =
              proc[t].initial_progress
                + Round((proc[t].i + 1) * (SEGMENT_PROGRESS_END - proc[t].initial_progress),
                        proc[t].num_segments)]_vars

\* C31: when the summarization stage fails, the failure detail that
\* summarize_with_grok returns is recorded in the error field of the task,
\* and the status of the task still becomes 'done'.
C31_SummaryFailureRecorded ==
  \A t \in TaskIds :
    (HasRow(t) /\ proc[t].pc = "finished" /\ proc[t].e = ""
       /\ proc[t].summarize /\ proc[t].info # "")
      => /\ rows[t].status = "done"
         /\ rows[t].error = proc[t].info

\* the segment artifacts task t can write
SegmentPathsOf(t) ==
  {SegmentPath(t, i) : i \in 0 .. (proc[t].num_segments - 1)}

\* C32: under any interleaving of the pipelines of two distinct tasks the
\* artifacts they write never coincide: the segment artifacts and the result
\* artifact are keyed by the task id, no pipeline overwrites or deletes an
\* artifact of another task, and each completed task has exactly one result
\* file, determined by its id.
C32_ArtifactsKeyedByTask ==
  /\ [](\A t \in TaskIds :
          /\ \A u \in TaskIds \ {t} :
               /\ SegmentPathsOf(t) \cap SegmentPathsOf(u) = {}
               /\ ResultPath(t) # ResultPath(u)
               /\ ResultPath(t)[2] # ResultPath(u)[2]
          /\ proc[t].pc \in Transcribing => SegmentPath(t, proc[t].i) \in files
          /\ proc[t].pc = "paf_done" => results[ResultPath(t)[2]] = proc[t].result
          /\ (HasRow(t) /\ rows[t].status = "done")
               => /\ rows[t].result_file = ResultPath(t)
                  /\ Exists(results, rows[t].result_file)
                  /\ results[ResultPath(t)[2]] = proc[t].result)
  /\ [][\A t \in TaskIds :
          proc'[t] = proc[t]
            => /\ rows'[t] = rows[t]
               /\ results'[ResultPath(t)[2]] = results[ResultPath(t)[2]]
               /\ \A path \in SegmentPathsOf(t) \cup {proc[t].file_path} :
                    (path \in files') <=> (path \in files)]_vars

\* the two pipelines hold a segment artifact each at the same time, and one
\* of the tasks is at its second segment
C32_Witness ==
  \E t \in TaskIds, u \in TaskIds :
    /\ t # u
    /\ proc[t].pc \in Transcribing
    /\ proc[u].pc \in Transcribing
    /\ proc[t].i = 1
    /\ proc[u].i = 0
    /\ {SegmentPath(t, 1), SegmentPath(u, 0)} \subseteq files

\* both tasks are done, each with its own result file
C32_BothDone ==
  \E t \in TaskIds, u \in TaskIds :
    /\ t # u
    /\ HasRow(t) /\ rows[t].status = "done"
    /\ HasRow(u) /\ rows[u].status = "done"
    /\ rows[t].result_file # rows[u].result_file
    /\ results[t] # NoFile
    /\ results[u] # NoFile

====
